---- MODULE Spec2Model ----
(***************************************************************************)
(* Model of the Amnezichat <-> IRC bridge (bridge.rs, network_operations.rs)*)
(*                                                                         *)
(* Strings are sequences of tokens: a token is a literal the code searches *)
(* for ("[AMZ]", "[IRC]", "<strong>", ": ", ...) or an opaque word.        *)
(*                                                                         *)
(* The specifications share the definitions below:                         *)
(*   Spec      the four background loops, the guarded Connection and       *)
(*             reconnect_irc, over a small universe of messages;           *)
(*   SpecMsg   the message path room service <-> IRC over a rich universe  *)
(*             of messages, on a connection that stays up;                 *)
(*   SpecConn  Bridge::new's initial connect and one task's reconnect_irc  *)
(*             with connect_and_auth run line by line;                     *)
(*   SpecRc    reconnect_irc with its delays recorded, and FairRc, the     *)
(*             same under fair scheduling;                                 *)
(*   SpecLine  the message path over texts at the length limit of a line;  *)
(*   SpecRelay the relay loop with its writes and submissions recorded;    *)
(*   FairPoll  the polling loop, the consumer and the keep-alive loop      *)
(*             under fair scheduling;                                      *)
(*   SpecAll   the four loops and reconnect_irc over enough messages to    *)
(*             fill the queue.                                             *)
(***************************************************************************)
EXTENDS Integers, Sequences, FiniteSets, TLC

VARIABLES
    pc,          \* position of each background task inside its loop
    irc_client,  \* the Connection inside Arc<Mutex<CustomIrcClient>>
    guard,       \* holder of the irc_client mutex, or "none"
    newc,        \* per task: the client local to connect_and_auth / reconnect_irc
    delay_secs,  \* per task: reconnect_irc's delay_secs
    serverUp,    \* environment: the IRC server accepts connections
    queue,       \* the mpsc channel of (target, text) Dispatch Items
    seen_amz,    \* dedup set of the polling loop
    seen_irc,    \* dedup set of the relay loop
    amzLock,     \* the polling loop holds the seen_amz mutex
    batch,       \* polling loop: messages of the current fetch still to process
    cur,         \* relay loop: the line read / consumer: the item taken
    room,        \* room service: plaintexts the bridge has posted
    fetched,     \* history: every message the polling loop iterated over
    sent,        \* history: every Dispatch Item submitted, in order
    sentFrom,    \* history: the fetched message each Dispatch Item came from
    wrote,       \* history: Dispatch Items written to a live socket, in order
    wire,        \* history: the writes issued on the shared socket, in order
    posts,       \* history: the submissions to the room service, in order
    hs           \* SpecConn: state of the running connect_and_auth

vars == <<pc, irc_client, guard, newc, delay_secs, serverUp, queue, seen_amz,
          seen_irc, amzLock, batch, cur, room, fetched, sent, sentFrom, wrote,
          wire, posts, hs>>

(***************************************************************************)
(* Bounds of the model.                                                    *)
(***************************************************************************)
QueueCap == 2      \* capacity of the Dispatch Queue in the model
MaxBatch == 1      \* longest list one fetch returns
MaxFetchedMsg == 3 \* messages fetched in one behaviour (SpecMsg)
MaxRetries == 1    \* failed attempts of one reconnect_irc call (Spec)
MaxWaits == 7      \* waits recorded in one reconnect_irc call (SpecConn)
MaxHsLines == 4    \* lines the server sends during one handshake (SpecConn)
MaxText == 402     \* characters of the longest fetched message (SpecLine)
MaxWire == 2       \* socket writes recorded in one behaviour (SpecRelay)
MaxFailedPosts == 1 \* failed submissions to the room service (SpecRelay)

(***************************************************************************)
(* Token strings.                                                          *)
(***************************************************************************)
AMZ == "[AMZ]"
IRC == "[IRC]"
STRONG == "<strong>"
STRONG_END == "</strong>"
PAD == "<padding>"
PAD_END == "</padding>"
PFP == "<pfp>"
PFP_END == "</pfp>"
MEDIA == "<media>"
MEDIA_END == "</media>"
DUMMY == "[DUMMY_DATA]:"
COLON_SP == ": "
SP == " "
CRLF == "\\r\\n"
CR == "\\r"
LF == "\\n"
ABOUT == ".amnezichat"

None == <<"None">>

Min(a, b) == IF a < b THEN a ELSE b

\* str::starts_with
StartsWith(s, p) == Len(s) >= Len(p) /\ SubSeq(s, 1, Len(p)) = p

\* str::contains for a one-token pattern
Contains(s, tok) == \E i \in 1..Len(s) : s[i] = tok

\* str::find for a one-token pattern: first index, 0 when absent
Find(s, tok) ==
    IF Contains(s, tok)
    THEN CHOOSE i \in 1..Len(s) : s[i] = tok /\ \A j \in 1..(i - 1) : s[j] # tok
    ELSE 0

\* str::replace(tok, "")
Remove(s, tok) == SelectSeq(s, LAMBDA x : x # tok)

\* str::trim: whitespace tokens off both ends
RECURSIVE TrimStart(_)
TrimStart(s) ==
    IF s # <<>> /\ Head(s) \in {SP, CRLF, CR, LF} THEN TrimStart(Tail(s)) ELSE s
RECURSIVE TrimEnd(_)
TrimEnd(s) ==
    IF s # <<>> /\ s[Len(s)] \in {SP, CRLF, CR, LF}
    THEN TrimEnd(SubSeq(s, 1, Len(s) - 1)) ELSE s
Trim(s) == TrimEnd(TrimStart(s))

\* Regex "<open>.*?</close>" with replace_all(.., ""): leftmost, non-greedy
RECURSIVE RemoveSpans(_, _, _)
RemoveSpans(s, open, close) ==
    LET i == Find(s, open) IN
    IF i = 0 THEN s
    ELSE LET rest == SubSeq(s, i + 1, Len(s))
             j == Find(rest, close)
         IN  IF j = 0 THEN s
             ELSE SubSeq(s, 1, i - 1)
                    \o RemoveSpans(SubSeq(rest, j + 1, Len(rest)), open, close)

(***************************************************************************)
(* network_operations.rs: receive_and_fetch_messages                       *)
(***************************************************************************)
unpad_message(message) ==
    LET start == Find(message, PAD)
        end == Find(message, PAD_END)
    IN  IF start # 0 /\ end # 0
        THEN SubSeq(message, 1, start - 1) \o SubSeq(message, end + 1, Len(message))
        ELSE message

Cleaned(decrypted) ==
    RemoveSpans(
        RemoveSpans(Remove(Remove(unpad_message(decrypted), STRONG), STRONG_END),
                    PFP, PFP_END),
        MEDIA, MEDIA_END)

\* the messages one fetch pushes for a list of decrypted payloads
RECURSIVE receive_and_fetch_messages(_)
receive_and_fetch_messages(payloads) ==
    IF payloads = <<>> THEN <<>>
    ELSE LET c == Cleaned(Head(payloads))
             r == receive_and_fetch_messages(Tail(payloads))
         IN  IF Contains(c, DUMMY) THEN r ELSE <<c>> \o r

(***************************************************************************)
(* bridge.rs: tasks, connections, messages                                 *)
(***************************************************************************)
Tasks == {"poll", "relay", "cons", "ping"}
Reconnectors == {"relay", "ping"}    \* the loops that call reconnect_irc
Procs == Tasks \cup {"main"}         \* "main" runs Bridge::new
Callers == Reconnectors \cup {"main"} \* the callers of connect_and_auth

\* lines 50-180: the positions of the four loops when Bridge::new spawns them
Spawned ==
    [t \in Procs |->
        CASE t = "poll" -> "fetch"
          [] t = "relay" -> "lock"
          [] t = "cons" -> "recv"
          [] t = "ping" -> "sleep"
          [] OTHER -> "running"]

NoConn == [alive |-> FALSE, stage |-> "none", by |-> "none"]

\* CustomIrcClient::new: a socket that has only been opened
NewClient(t) == [alive |-> TRUE, stage |-> "connected", by |-> t]

irc_chan == <<"#chan">>

\* polling loop, lines 68-74: the text of the Dispatch Item for a fetched m
Content(m) == IF StartsWith(m, <<AMZ>>) THEN Tail(m) ELSE m

Transformed(content) ==
    LET i == Find(content, COLON_SP) IN
    IF i # 0
    THEN <<"^B^C11">> \o Trim(SubSeq(content, 1, i - 1)) \o <<" >^B^C ">>
            \o Trim(SubSeq(content, i + 1, Len(content)))
    ELSE content

\* relay loop, line 124
Formatted(nick, msg) == <<IRC, STRONG>> \o nick \o <<STRONG_END, COLON_SP>> \o msg

\* relay loop, line 110: the fingerprint "{nick}:{msg}"
Key(nick, msg) == nick \o <<":">> \o msg

\* str::splitn(n, ' ')
RECURSIVE SplitN(_, _)
SplitN(s, n) ==
    LET i == Find(s, SP) IN
    IF n <= 1 \/ i = 0 THEN <<s>>
    ELSE <<SubSeq(s, 1, i - 1)>> \o SplitN(SubSeq(s, i + 1, Len(s)), n - 1)

\* str::trim_start_matches(':')
RECURSIVE TrimStartMatches(_, _)
TrimStartMatches(s, tok) ==
    IF s # <<>> /\ Head(s) = tok THEN TrimStartMatches(Tail(s), tok) ELSE s

\* lines 315-329: <<target, msg, nick>> of a raw line, or None
parse_irc_message(raw) ==
    LET t == Trim(raw)
        parts == SplitN(t, 4)
        prefix == IF StartsWith(t, <<":">>) THEN Tail(t) ELSE t
        bang == Find(prefix, "!")
        nick == IF bang = 0 THEN prefix ELSE SubSeq(prefix, 1, bang - 1)
    IN  IF ~Contains(t, "PRIVMSG") THEN None
        ELSE IF Len(parts) < 4 THEN None
        ELSE <<parts[3], TrimStartMatches(parts[4], ":"), nick>>

\* line 105: raw.replace("PING", "PONG")
Pong(raw) == [i \in 1..Len(raw) |-> IF raw[i] = "PING" THEN "PONG" ELSE raw[i]]

\* crate::encryption is not part of the sources: the payload the room
\* service later returns decrypts to the plaintext, with or without a
\* padding span in front of it
Echo(plain) == {plain, <<PAD, "p", PAD_END>> \o plain}

\* the characters of a token string: the literals the bridge builds are
\* spelled out, every other token stands for one character
CharsOf(tok) ==
    CASE tok = CRLF -> <<CR, LF>>
      [] tok = COLON_SP -> <<":", SP>>
      [] tok = "^B^C11" -> <<"^B", "^C", "1", "1">>
      [] tok = " >^B^C " -> <<SP, ">", "^B", "^C", SP>>
      [] OTHER -> <<tok>>

RECURSIVE Chars(_)
Chars(s) ==
    IF s = <<>> THEN <<>>
    ELSE IF Len(s) = 1 THEN CharsOf(s[1])
    ELSE LET h == Len(s) \div 2
         IN  Chars(SubSeq(s, 1, h)) \o Chars(SubSeq(s, h + 1, Len(s)))

\* line 295: chars().take(400)
MaxLineBody == 400

\* send_message without the limit on the body
clean_NoLimit(m) ==
    LET c == Chars(m)
    IN  [i \in 1..Len(c) |-> IF c[i] \in {CR, LF} THEN SP ELSE c[i]]

\* lines 294-295: m.replace(['\r', '\n'], " ").chars().take(400)
clean(m) ==
    LET c == Chars(m)
        r == [i \in 1..Len(c) |-> IF c[i] \in {CR, LF} THEN SP ELSE c[i]]
    IN  SubSeq(r, 1, Min(Len(r), MaxLineBody))

\* lines 293-297: the line send_message(tgt, m) hands to send_raw
send_message(tgt, m) ==
    <<"PRIVMSG", SP>> \o tgt \o <<SP, ":">> \o clean(m) \o <<CRLF>>

\* line 118: the static reply to the about command
ABOUT_TEXT == "Anti-forensic and secure messenger. Source code: ..."
response(nick) == nick \o <<COLON_SP, ABOUT_TEXT>>

\* line 173
KeepAlivePing == <<"PING", SP, ":", "keepalive", CRLF>>

\* lines 299-303: send_raw by task t on the shared client; the write reaches
\* the peer only if the socket is alive
send_raw(history, t, data) ==
    wire' = IF history
            THEN Append(wire, [by |-> t, data |-> data, ok |-> irc_client.alive])
            ELSE wire

SeqsUpTo(S, n) == UNION {[1..k -> S] : k \in 0..n}

\* K of a fetch history: entries equal to an earlier entry
Duplicates(h) ==
    Cardinality({i \in 1..Len(h) : \E j \in 1..(i - 1) : h[j] = h[i]})

(***************************************************************************)
(* Polling loop, lines 58-84                                               *)
(***************************************************************************)
\* a polling loop that ends when a fetch fails
PollFetch_StopOnError(Payloads, budget) ==
    /\ pc["poll"] = "fetch"
    /\ \/ \E ps \in SeqsUpTo(Payloads, MaxBatch) :
            LET msgs == receive_and_fetch_messages(ps) IN
            /\ Len(msgs) <= budget
            /\ batch' = msgs
            /\ pc' = [pc EXCEPT !["poll"] = "items"]
       \/ \E e \in {"error", "timeout"} :
            /\ batch' = <<>>
            /\ pc' = [pc EXCEPT !["poll"] = "stopped"]
    /\ UNCHANGED <<irc_client, guard, newc, delay_secs, serverUp, queue,
                   seen_amz, seen_irc, amzLock, cur, room, fetched, sent,
                   sentFrom, wrote, wire, posts, hs>>

\* line 60: the fetch under the 10 s timeout; Ok(Ok(msgs)) goes to the loop
\* over the messages, Ok(Err(e)) and Err(_) to the eprintln of lines 79-80
PollFetch(Payloads, budget) ==
    /\ pc["poll"] = "fetch"
    /\ \/ \E ps \in SeqsUpTo(Payloads, MaxBatch) :
            LET msgs == receive_and_fetch_messages(ps) IN
            /\ Len(msgs) <= budget
            /\ batch' = msgs
            /\ pc' = [pc EXCEPT !["poll"] = "items"]
       \/ \E e \in {"error", "timeout"} :
            /\ batch' = <<>>
            /\ pc' = [pc EXCEPT !["poll"] = "log"]
    /\ UNCHANGED <<irc_client, guard, newc, delay_secs, serverUp, queue,
                   seen_amz, seen_irc, amzLock, cur, room, fetched, sent,
                   sentFrom, wrote, wire, posts, hs>>

\* lines 79-80: the error or the timeout is printed
PollLog ==
    /\ pc["poll"] = "log"
    /\ pc' = [pc EXCEPT !["poll"] = "sleep"]
    /\ UNCHANGED <<irc_client, guard, newc, delay_secs, serverUp, queue,
                   seen_amz, seen_irc, amzLock, batch, cur, room, fetched,
                   sent, sentFrom, wrote, wire, posts, hs>>

\* the loop body without the insert of line 67
PollItemBody_NoRecord(m) ==
    IF m \in seen_amz
    THEN /\ batch' = Tail(batch)
         /\ UNCHANGED <<seen_amz, amzLock, pc>>
    ELSE /\ UNCHANGED seen_amz
         /\ IF StartsWith(Content(m), <<IRC>>)
            THEN /\ batch' = Tail(batch)
                 /\ UNCHANGED <<amzLock, pc>>
            ELSE /\ amzLock' = TRUE
                 /\ pc' = [pc EXCEPT !["poll"] = "send"]
                 /\ UNCHANGED batch

\* the loop body without the marker test of line 69
PollItemBody_NoMarkerTest(m) ==
    IF m \in seen_amz
    THEN /\ batch' = Tail(batch)
         /\ UNCHANGED <<seen_amz, amzLock, pc>>
    ELSE /\ seen_amz' = seen_amz \cup {m}
         /\ amzLock' = TRUE
         /\ pc' = [pc EXCEPT !["poll"] = "send"]
         /\ UNCHANGED batch

\* lines 63-69: lock the set, skip a duplicate, record, test the marker
PollItemBody(m) ==
    IF m \in seen_amz
    THEN /\ batch' = Tail(batch)
         /\ UNCHANGED <<seen_amz, amzLock, pc>>
    ELSE /\ seen_amz' = seen_amz \cup {m}
         /\ IF StartsWith(Content(m), <<IRC>>)
            THEN /\ batch' = Tail(batch)
                 /\ UNCHANGED <<amzLock, pc>>
            ELSE /\ amzLock' = TRUE
                 /\ pc' = [pc EXCEPT !["poll"] = "send"]
                 /\ UNCHANGED batch

PollItem(history) ==
    /\ pc["poll"] = "items"
    /\ batch # <<>>
    /\ ~amzLock
    /\ fetched' = IF history THEN Append(fetched, Head(batch)) ELSE fetched
    /\ PollItemBody(Head(batch))
    /\ UNCHANGED <<irc_client, guard, newc, delay_secs, serverUp, queue,
                   seen_irc, cur, room, sent, sentFrom, wrote, wire, posts, hs>>

\* line 75: polling_tx.send(..).await, suspended while the queue is full
PollSend ==
    /\ pc["poll"] = "send"
    /\ Len(queue) < QueueCap
    /\ LET item == <<irc_chan, Transformed(Content(Head(batch)))>> IN
        /\ queue' = Append(queue, item)
        /\ sent' = Append(sent, item)
        /\ sentFrom' = Append(sentFrom, Head(batch))
    /\ amzLock' = FALSE
    /\ batch' = Tail(batch)
    /\ pc' = [pc EXCEPT !["poll"] = "items"]
    /\ UNCHANGED <<irc_client, guard, newc, delay_secs, serverUp, seen_amz,
                   seen_irc, cur, room, fetched, wrote, wire, posts, hs>>

PollDone ==
    /\ pc["poll"] = "items"
    /\ batch = <<>>
    /\ pc' = [pc EXCEPT !["poll"] = "sleep"]
    /\ UNCHANGED <<irc_client, guard, newc, delay_secs, serverUp, queue,
                   seen_amz, seen_irc, amzLock, batch, cur, room, fetched,
                   sent, sentFrom, wrote, wire, posts, hs>>

\* line 82
PollSleep ==
    /\ pc["poll"] = "sleep"
    /\ pc' = [pc EXCEPT !["poll"] = "fetch"]
    /\ UNCHANGED <<irc_client, guard, newc, delay_secs, serverUp, queue,
                   seen_amz, seen_irc, amzLock, batch, cur, room, fetched,
                   sent, sentFrom, wrote, wire, posts, hs>>

(***************************************************************************)
(* Relay loop, lines 99-148                                                *)
(***************************************************************************)
Release(t) == guard' = IF guard = t THEN "none" ELSE guard

\* line 101: client_recv.lock().await
RelayLock ==
    /\ pc["relay"] = "lock"
    /\ guard = "none"
    /\ guard' = "relay"
    /\ pc' = [pc EXCEPT !["relay"] = "recv"]
    /\ UNCHANGED <<irc_client, newc, delay_secs, serverUp, queue, seen_amz,
                   seen_irc, amzLock, batch, cur, room, fetched, sent,
                   sentFrom, wrote, wire, posts, hs>>

\* the relay loop calling reconnect_irc with the guard still held
RelayRecv_KeepGuard(Lines) ==
    /\ pc["relay"] = "recv"
    /\ \/ /\ irc_client.alive
          /\ \E raw \in Lines :
                /\ cur' = [cur EXCEPT !["relay"] = raw]
                /\ pc' = [pc EXCEPT !["relay"] = "line"]
          /\ UNCHANGED <<guard, delay_secs>>
       \/ \E e \in (IF irc_client.alive THEN {"timeout"} ELSE {"io", "timeout"}) :
          /\ delay_secs' = [delay_secs EXCEPT !["relay"] = 5]
          /\ pc' = [pc EXCEPT !["relay"] = "rc_connect"]
          /\ UNCHANGED <<guard, cur>>
    /\ UNCHANGED <<irc_client, newc, serverUp, queue, seen_amz, seen_irc,
                   amzLock, batch, room, fetched, sent, sentFrom, wrote, wire, posts, hs>>

\* line 102: guard.receive_message() under the 35 s timeout; a dead socket,
\* the socket's own read timeout and the 35 s timeout all end in lines
\* 136-145: the guard is dropped and reconnect_irc starts with delay_secs = 5
RelayRecv(Lines) ==
    /\ pc["relay"] = "recv"
    /\ \/ /\ irc_client.alive
          /\ \E raw \in Lines :
                /\ cur' = [cur EXCEPT !["relay"] = raw]
                /\ pc' = [pc EXCEPT !["relay"] = "line"]
          /\ UNCHANGED <<guard, delay_secs>>
       \/ \E e \in (IF irc_client.alive THEN {"timeout"} ELSE {"io", "timeout"}) :
          /\ Release("relay")
          /\ delay_secs' = [delay_secs EXCEPT !["relay"] = 5]
          /\ pc' = [pc EXCEPT !["relay"] = "rc_connect"]
          /\ UNCHANGED cur
    /\ UNCHANGED <<irc_client, newc, serverUp, queue, seen_amz, seen_irc,
                   amzLock, batch, room, fetched, sent, sentFrom, wrote, wire, posts, hs>>

\* the end of one iteration of the relay loop: the guard drops
RelayNext ==
    /\ Release("relay")
    /\ cur' = [cur EXCEPT !["relay"] = <<>>]
    /\ pc' = [pc EXCEPT !["relay"] = "lock"]

\* the relay loop without the about command of lines 117-121
RelayMessage_NoAbout(target, msg, nick) ==
    IF Key(nick, msg) \in seen_irc
    THEN /\ RelayNext
         /\ UNCHANGED seen_irc
    ELSE /\ seen_irc' = seen_irc \cup {Key(nick, msg)}
         /\ IF ~StartsWith(msg, <<AMZ>>)
            THEN /\ pc' = [pc EXCEPT !["relay"] = "forward"]
                 /\ UNCHANGED <<guard, cur>>
            ELSE RelayNext

\* the relay loop without the test of line 112
RelayMessage_NoSeen(target, msg, nick) ==
    /\ seen_irc' = seen_irc \cup {Key(nick, msg)}
    /\ IF Trim(msg) = <<ABOUT>>
       THEN /\ pc' = [pc EXCEPT !["relay"] = "reply"]
            /\ UNCHANGED <<guard, cur>>
       ELSE IF ~StartsWith(msg, <<AMZ>>)
       THEN /\ pc' = [pc EXCEPT !["relay"] = "forward"]
            /\ UNCHANGED <<guard, cur>>
       ELSE RelayNext

\* lines 109-123 for a parsed direct message
RelayMessage(target, msg, nick) ==
    IF Key(nick, msg) \in seen_irc
    THEN /\ RelayNext
         /\ UNCHANGED seen_irc
    ELSE /\ seen_irc' = seen_irc \cup {Key(nick, msg)}
         /\ IF Trim(msg) = <<ABOUT>>
            THEN /\ pc' = [pc EXCEPT !["relay"] = "reply"]
                 /\ UNCHANGED <<guard, cur>>
            ELSE IF ~StartsWith(msg, <<AMZ>>)
            THEN /\ pc' = [pc EXCEPT !["relay"] = "forward"]
                 /\ UNCHANGED <<guard, cur>>
            ELSE RelayNext

\* lines 103-135: what the loop does with a line it has read
RelayHandle ==
    /\ pc["relay"] = "line"
    /\ LET raw == cur["relay"]
           parsed == parse_irc_message(raw)
       IN  IF StartsWith(raw, <<"PING">>)
           THEN /\ pc' = [pc EXCEPT !["relay"] = "pong"]
                /\ UNCHANGED <<guard, cur, seen_irc>>
           ELSE IF parsed # None
           THEN RelayMessage(parsed[1], parsed[2], parsed[3])
           ELSE /\ RelayNext
                /\ UNCHANGED seen_irc
    /\ UNCHANGED <<irc_client, newc, delay_secs, serverUp, queue, seen_amz,
                   amzLock, batch, room, fetched, sent, sentFrom, wrote, wire, posts, hs>>

\* line 105-106: let _ = guard.send_raw(PONG); continue
RelayPong(history) ==
    /\ pc["relay"] = "pong"
    /\ send_raw(history, "relay", Pong(cur["relay"]))
    /\ RelayNext
    /\ UNCHANGED <<irc_client, newc, delay_secs, serverUp, queue, seen_amz,
                   seen_irc, amzLock, batch, room, fetched, sent, sentFrom,
                   wrote, posts, hs>>

\* lines 118-120: let _ = guard.send_message(target, response); continue
RelayReply(history) ==
    /\ pc["relay"] = "reply"
    /\ LET parsed == parse_irc_message(cur["relay"]) IN
       send_raw(history, "relay", send_message(parsed[1], response(parsed[3])))
    /\ RelayNext
    /\ UNCHANGED <<irc_client, newc, delay_secs, serverUp, queue, seen_amz,
                   seen_irc, amzLock, batch, room, fetched, sent, sentFrom,
                   wrote, posts, hs>>

\* the ways a submission fails: a non-success status, a transport error,
\* the 5 s timeout, an error of encrypt_data
Failures == {"status", "error", "timeout", "encrypt_error"}

\* lines 124-132: encrypt and post under the 5 s timeout; every failure is
\* logged and the iteration ends
RelayForward(history, mayFail) ==
    /\ pc["relay"] = "forward"
    /\ LET parsed == parse_irc_message(cur["relay"])
           formatted == Formatted(parsed[3], parsed[2])
       IN  \E outcome \in {"ok"} \cup (IF mayFail THEN Failures ELSE {}) :
              /\ room' = IF outcome = "ok" THEN room \cup {formatted} ELSE room
              /\ posts' = IF history
                          THEN Append(posts,
                                 [key |-> Key(parsed[3], parsed[2]),
                                  text |-> formatted,
                                  outcome |-> outcome])
                          ELSE posts
    /\ RelayNext
    /\ UNCHANGED <<irc_client, newc, delay_secs, serverUp, queue, seen_amz,
                   seen_irc, amzLock, batch, fetched, sent, sentFrom, wrote,
                   wire, hs>>

(***************************************************************************)
(* Dispatch consumer, lines 151-159                                        *)
(***************************************************************************)
\* a consumer that takes the newest item of the queue
ConsRecv_Lifo ==
    /\ pc["cons"] = "recv"
    /\ queue # <<>>
    /\ cur' = [cur EXCEPT !["cons"] = queue[Len(queue)]]
    /\ queue' = SubSeq(queue, 1, Len(queue) - 1)
    /\ pc' = [pc EXCEPT !["cons"] = "lock"]
    /\ UNCHANGED <<irc_client, guard, newc, delay_secs, serverUp, seen_amz,
                   seen_irc, amzLock, batch, room, fetched, sent, sentFrom,
                   wrote, wire, posts, hs>>

\* line 154: rx.recv().await
ConsRecv ==
    /\ pc["cons"] = "recv"
    /\ queue # <<>>
    /\ cur' = [cur EXCEPT !["cons"] = Head(queue)]
    /\ queue' = Tail(queue)
    /\ pc' = [pc EXCEPT !["cons"] = "lock"]
    /\ UNCHANGED <<irc_client, guard, newc, delay_secs, serverUp, seen_amz,
                   seen_irc, amzLock, batch, room, fetched, sent, sentFrom,
                   wrote, wire, posts, hs>>

\* a consumer that writes without taking the guard
ConsLock_NoGuard ==
    /\ pc["cons"] = "lock"
    /\ pc' = [pc EXCEPT !["cons"] = "write"]
    /\ UNCHANGED <<irc_client, guard, newc, delay_secs, serverUp, queue,
                   seen_amz, seen_irc, amzLock, batch, cur, room, fetched,
                   sent, sentFrom, wrote, wire, posts, hs>>

\* line 155
ConsLock ==
    /\ pc["cons"] = "lock"
    /\ guard = "none"
    /\ guard' = "cons"
    /\ pc' = [pc EXCEPT !["cons"] = "write"]
    /\ UNCHANGED <<irc_client, newc, delay_secs, serverUp, queue, seen_amz,
                   seen_irc, amzLock, batch, cur, room, fetched, sent,
                   sentFrom, wrote, wire, posts, hs>>

\* line 156: let _ = guard.send_message(&tgt, &msg); the guard drops
ConsWrite(history) ==
    /\ pc["cons"] = "write"
    /\ send_raw(history, "cons", send_message(cur["cons"][1], cur["cons"][2]))
    /\ wrote' = IF irc_client.alive THEN Append(wrote, cur["cons"]) ELSE wrote
    /\ Release("cons")
    /\ cur' = [cur EXCEPT !["cons"] = <<>>]
    /\ pc' = [pc EXCEPT !["cons"] = "recv"]
    /\ UNCHANGED <<irc_client, newc, delay_secs, serverUp, queue, seen_amz,
                   seen_irc, amzLock, batch, room, fetched, sent, sentFrom,
                   posts, hs>>

(***************************************************************************)
(* Keep-alive loop, lines 169-179                                          *)
(***************************************************************************)
\* line 171
PingSleep ==
    /\ pc["ping"] = "sleep"
    /\ pc' = [pc EXCEPT !["ping"] = "lock"]
    /\ UNCHANGED <<irc_client, guard, newc, delay_secs, serverUp, queue,
                   seen_amz, seen_irc, amzLock, batch, cur, room, fetched,
                   sent, sentFrom, wrote, wire, posts, hs>>

\* line 172
PingLock ==
    /\ pc["ping"] = "lock"
    /\ guard = "none"
    /\ guard' = "ping"
    /\ pc' = [pc EXCEPT !["ping"] = "write"]
    /\ UNCHANGED <<irc_client, newc, delay_secs, serverUp, queue, seen_amz,
                   seen_irc, amzLock, batch, cur, room, fetched, sent,
                   sentFrom, wrote, wire, posts, hs>>

\* the keep-alive loop calling reconnect_irc with the guard still held
PingWrite_KeepGuard(history) ==
    /\ pc["ping"] = "write"
    /\ send_raw(history, "ping", KeepAlivePing)
    /\ IF irc_client.alive
       THEN /\ Release("ping")
            /\ pc' = [pc EXCEPT !["ping"] = "sleep"]
            /\ UNCHANGED delay_secs
       ELSE /\ pc' = [pc EXCEPT !["ping"] = "rc_connect"]
            /\ delay_secs' = [delay_secs EXCEPT !["ping"] = 5]
            /\ UNCHANGED guard
    /\ UNCHANGED <<irc_client, newc, serverUp, queue, seen_amz, seen_irc,
                   amzLock, batch, cur, room, fetched, sent, sentFrom, wrote,
                   posts, hs>>

\* lines 173-177: a failed write drops the guard and calls reconnect_irc
PingWrite(history) ==
    /\ pc["ping"] = "write"
    /\ send_raw(history, "ping", KeepAlivePing)
    /\ Release("ping")
    /\ IF irc_client.alive
       THEN /\ pc' = [pc EXCEPT !["ping"] = "sleep"]
            /\ UNCHANGED delay_secs
       ELSE /\ pc' = [pc EXCEPT !["ping"] = "rc_connect"]
            /\ delay_secs' = [delay_secs EXCEPT !["ping"] = 5]
    /\ UNCHANGED <<irc_client, newc, serverUp, queue, seen_amz, seen_irc,
                   amzLock, batch, cur, room, fetched, sent, sentFrom, wrote,
                   posts, hs>>

(***************************************************************************)
(* reconnect_irc, lines 186-210, run by task t                             *)
(***************************************************************************)
InReconnect(t) ==
    pc[t] \in {"rc_connect", "rc_auth", "rc_sleep", "rc_lock", "rc_swap"}

\* where the calling loop continues after reconnect_irc returns
AfterReconnect(t) == IF t = "relay" THEN "lock" ELSE "sleep"

\* reconnect_irc installing the client as soon as its socket is open
RcConnect_SwapFirst(t, retry) ==
    /\ pc[t] = "rc_connect"
    /\ IF serverUp
       THEN /\ newc' = [newc EXCEPT ![t] = NewClient(t)]
            /\ pc' = [pc EXCEPT ![t] = "rc_lock"]
       ELSE /\ retry
            /\ pc' = [pc EXCEPT ![t] = "rc_sleep"]
            /\ UNCHANGED newc
    /\ UNCHANGED <<irc_client, guard, delay_secs, serverUp, queue, seen_amz,
                   seen_irc, amzLock, batch, cur, room, fetched, sent,
                   sentFrom, wrote, wire, posts, hs>>

\* line 232 inside line 196: CustomIrcClient::new
RcConnect(t, retry) ==
    /\ pc[t] = "rc_connect"
    /\ IF serverUp
       THEN /\ newc' = [newc EXCEPT ![t] = NewClient(t)]
            /\ pc' = [pc EXCEPT ![t] = "rc_auth"]
       ELSE /\ retry
            /\ pc' = [pc EXCEPT ![t] = "rc_sleep"]
            /\ UNCHANGED newc
    /\ UNCHANGED <<irc_client, guard, delay_secs, serverUp, queue, seen_amz,
                   seen_irc, amzLock, batch, cur, room, fetched, sent,
                   sentFrom, wrote, wire, posts, hs>>

\* reconnect_irc returning to its caller when the server rejects the
\* credentials
RcAuth_GiveUp(t, retry) ==
    /\ pc[t] = "rc_auth"
    /\ IF serverUp
       THEN /\ newc' = [newc EXCEPT ![t].stage = "joined"]
            /\ pc' = [pc EXCEPT ![t] = "rc_lock"]
       ELSE /\ retry
            /\ \E e \in {"io", "rejected"} :
                  /\ newc' = [newc EXCEPT ![t] = NoConn]
                  /\ pc' = [pc EXCEPT ![t] = IF e = "rejected"
                                             THEN AfterReconnect(t)
                                             ELSE "rc_sleep"]
    /\ UNCHANGED <<irc_client, guard, delay_secs, serverUp, queue, seen_amz,
                   seen_irc, amzLock, batch, cur, room, fetched, sent,
                   sentFrom, wrote, wire, posts, hs>>

\* lines 234-278 as one step: the handshake on the local client either
\* completes (Ok(c)) or fails with an I/O error or a SASL rejection (the
\* client is dropped)
RcAuth(t, retry) ==
    /\ pc[t] = "rc_auth"
    /\ IF serverUp
       THEN /\ newc' = [newc EXCEPT ![t].stage = "joined"]
            /\ pc' = [pc EXCEPT ![t] = "rc_lock"]
       ELSE /\ retry
            /\ \E e \in {"io", "rejected"} :
                  newc' = [newc EXCEPT ![t] = NoConn]
            /\ pc' = [pc EXCEPT ![t] = "rc_sleep"]
    /\ UNCHANGED <<irc_client, guard, delay_secs, serverUp, queue, seen_amz,
                   seen_irc, amzLock, batch, cur, room, fetched, sent,
                   sentFrom, wrote, wire, posts, hs>>

\* the backoff doubling without its cap
RcSleep_NoCap(t, history) ==
    /\ pc[t] = "rc_sleep"
    /\ history => Len(hs.waits) < MaxWaits
    /\ hs' = IF history
             THEN [hs EXCEPT !.waits = Append(@, delay_secs[t])]
             ELSE hs
    /\ delay_secs' = [delay_secs EXCEPT ![t] = delay_secs[t] * 2]
    /\ pc' = [pc EXCEPT ![t] = "rc_connect"]
    /\ UNCHANGED <<irc_client, guard, newc, serverUp, queue, seen_amz,
                   seen_irc, amzLock, batch, cur, room, fetched, sent,
                   sentFrom, wrote, wire, posts>>

\* lines 204-206: sleep(delay_secs), then delay_secs = (delay_secs * 2).min(60)
RcSleep(t, history) ==
    /\ pc[t] = "rc_sleep"
    /\ history => Len(hs.waits) < MaxWaits
    /\ hs' = IF history
             THEN [hs EXCEPT !.waits = Append(@, delay_secs[t])]
             ELSE hs
    /\ delay_secs' = [delay_secs EXCEPT ![t] = Min(delay_secs[t] * 2, 60)]
    /\ pc' = [pc EXCEPT ![t] = "rc_connect"]
    /\ UNCHANGED <<irc_client, guard, newc, serverUp, queue, seen_amz,
                   seen_irc, amzLock, batch, cur, room, fetched, sent,
                   sentFrom, wrote, wire, posts>>

\* reconnect_irc taking the connection without waiting for the guard
RcLock_NoWait(t) ==
    /\ pc[t] = "rc_lock"
    /\ guard' = t
    /\ pc' = [pc EXCEPT ![t] = "rc_swap"]
    /\ UNCHANGED <<irc_client, newc, delay_secs, serverUp, queue, seen_amz,
                   seen_irc, amzLock, batch, cur, room, fetched, sent,
                   sentFrom, wrote, wire, posts, hs>>

\* line 198: client.lock().await
RcLock(t) ==
    /\ pc[t] = "rc_lock"
    /\ guard = "none"
    /\ guard' = t
    /\ pc' = [pc EXCEPT ![t] = "rc_swap"]
    /\ UNCHANGED <<irc_client, newc, delay_secs, serverUp, queue, seen_amz,
                   seen_irc, amzLock, batch, cur, room, fetched, sent,
                   sentFrom, wrote, wire, posts, hs>>

\* lines 199-201: *guard = newc; break (the guard drops, the old client too)
RcSwap(t) ==
    /\ pc[t] = "rc_swap"
    /\ irc_client' = newc[t]
    /\ newc' = [newc EXCEPT ![t] = NoConn]
    /\ Release(t)
    /\ delay_secs' = [delay_secs EXCEPT ![t] = 5]
    /\ hs' = [hs EXCEPT !.waits = <<>>]
    /\ pc' = [pc EXCEPT ![t] = AfterReconnect(t)]
    /\ UNCHANGED <<serverUp, queue, seen_amz, seen_irc, amzLock, batch, cur,
                   room, fetched, sent, sentFrom, wrote, wire, posts>>

(***************************************************************************)
(* Environment                                                             *)
(***************************************************************************)
\* the peer closes or the network drops the established connection
ConnDrop ==
    /\ irc_client.alive
    /\ irc_client' = [irc_client EXCEPT !.alive = FALSE]
    /\ UNCHANGED <<pc, guard, newc, delay_secs, serverUp, queue, seen_amz,
                   seen_irc, amzLock, batch, cur, room, fetched, sent,
                   sentFrom, wrote, wire, posts, hs>>

\* the IRC server stops or starts accepting connections
ServerToggle ==
    /\ serverUp' = ~serverUp
    /\ UNCHANGED <<pc, irc_client, guard, newc, delay_secs, queue, seen_amz,
                   seen_irc, amzLock, batch, cur, room, fetched, sent,
                   sentFrom, wrote, wire, posts, hs>>

(***************************************************************************)
(* Spec: the bridge after a successful Bridge::new (lines 37-48, 182)      *)
(***************************************************************************)
NoHs == [pc |-> "idle", creds |-> FALSE, in |-> <<>>, out |-> <<>>,
         waits |-> <<>>, result |-> "none"]

PayloadsSmall == {<<"u", COLON_SP, "x">>, <<AMZ, "y">>}

PingLine == <<"PING", SP, ":", "srv", CRLF>>
HiLine == <<":", "bob", "!", "u@h", SP, "PRIVMSG", SP, "#chan", SP, ":", "hi", CRLF>>
AboutLine == <<":", "bob", "!", "u@h", SP, "PRIVMSG", SP, "#chan", SP, ":", ABOUT, CRLF>>
LinesSmall == {PingLine, HiLine, AboutLine}

Init ==
    /\ pc = Spawned
    /\ irc_client = [alive |-> TRUE, stage |-> "joined", by |-> "new"]
    /\ guard = "none"
    /\ newc = [t \in Callers |-> NoConn]
    /\ delay_secs = [t \in Reconnectors |-> 5]
    /\ serverUp = TRUE
    /\ queue = <<>>
    /\ seen_amz = {}
    /\ seen_irc = {}
    /\ amzLock = FALSE
    /\ batch = <<>>
    /\ cur = [t \in {"relay", "cons"} |-> <<>>]
    /\ room = {}
    /\ fetched = <<>>
    /\ sent = <<>>
    /\ sentFrom = <<>>
    /\ wrote = <<>>
    /\ wire = <<>>
    /\ posts = <<>>
    /\ hs = NoHs

Polling == PollFetch(PayloadsSmall, MaxBatch) \/ PollItem(FALSE) \/ PollSend
              \/ PollDone \/ PollLog \/ PollSleep

Relay == RelayLock \/ RelayRecv(LinesSmall) \/ RelayHandle \/ RelayPong(FALSE)
            \/ RelayReply(FALSE) \/ RelayForward(FALSE, TRUE)

Consumer == ConsRecv \/ ConsLock \/ ConsWrite(FALSE)

KeepAlive == PingSleep \/ PingLock \/ PingWrite(FALSE)

\* a further failed attempt of t's reconnect_irc is within the bound of Spec
Retry(t) == delay_secs[t] < 5 * (2 ^ MaxRetries)

Reconnect(t) ==
    \/ RcConnect(t, Retry(t))
    \/ RcAuth(t, Retry(t))
    \/ RcSleep(t, FALSE)
    \/ RcLock(t)
    \/ RcSwap(t)

Next ==
    \/ Polling
    \/ Relay
    \/ Consumer
    \/ KeepAlive
    \/ \E t \in Reconnectors : Reconnect(t)
    \/ ConnDrop
    \/ ServerToggle

Spec == Init /\ [][Next]_vars

(***************************************************************************)
(* Properties of Spec                                                      *)
(***************************************************************************)
\* the positions at which a task reads, writes or replaces the shared client
SocketOpPcs(t) ==
    CASE t = "relay" -> {"recv", "pong", "reply", "rc_swap"}
      [] t = "cons" -> {"write"}
      [] t = "ping" -> {"write", "rc_swap"}
      [] OTHER -> {}

InSocketOp(t) == pc[t] \in SocketOpPcs(t)

\* C1: at most one task at a time performs a read, a write or a replacement
\* on the shared Connection
C1_OneSocketOperation == Cardinality({t \in Tasks : InSocketOp(t)}) <= 1

\* a reconnect performs the swap while the three other users of the
\* connection wait for the guard
C1_Witness ==
    /\ pc["ping"] = "rc_swap"
    /\ pc["relay"] = "lock"
    /\ pc["cons"] = "lock"

\* C4: every Dispatch Item submitted is written exactly once to a live
\* Connection: once the queue is drained, the items written are the items
\* submitted
C4_NoItemLost == (queue = <<>> /\ pc["cons"] = "recv") => wrote = sent

\* C9: the Connection behind the guard has completed the handshake, whoever
\* holds the guard and whatever a reconnect is doing to its own client
C9_AtomicReplace == irc_client.stage = "joined"

\* the consumer writes on a connection a reconnect installed, while the other
\* reconnect holds a client that is only connected
C9_Witness ==
    /\ irc_client.by = "relay"
    /\ pc["cons"] = "write"
    /\ newc["ping"].stage = "connected"

\* C10: every failed socket operation on the established Connection is
\* followed by the failing task's call of reconnect_irc
C10_FailureReconnects ==
    [][\A t \in Tasks :
          (InSocketOp(t) /\ pc[t] # "rc_swap" /\ ~irc_client.alive
              /\ pc'[t] # pc[t])
            => pc'[t] = "rc_connect"]_vars

\* the positions at which a task writes on the shared client: lines 105 and
\* 119 (relay loop), 156 (consumer), 173 (keep-alive loop)
WritePcs(t) ==
    CASE t = "relay" -> {"pong", "reply"}
      [] t = "cons" -> {"write"}
      [] t = "ping" -> {"write"}
      [] OTHER -> {}

Writing(t) == pc[t] \in WritePcs(t)

\* C14 as stated: only the consumer and the keep-alive loop write to the
\* shared socket, each holding the guard
C14_AsStated ==
    \A t \in Tasks : Writing(t) => (t \in {"cons", "ping"} /\ guard = t)

\* C14: only the consumer, the keep-alive loop and the relay loop (PONG and
\* about reply) write to the shared socket, each holding the guard
C14_Writers ==
    \A t \in Tasks : Writing(t) => (t \in {"cons", "ping", "relay"} /\ guard = t)

\* the relay loop writes the about reply while the two other writers wait
\* for the guard
C14_Witness ==
    /\ pc["relay"] = "reply"
    /\ guard = "relay"
    /\ pc["cons"] = "lock"
    /\ pc["ping"] = "lock"

\* reconnect_irc's steps before it asks for the guard: connecting, the
\* handshake and the wait between two attempts
RcWorking(t) == pc[t] \in {"rc_connect", "rc_auth", "rc_sleep", "rc_lock"}

\* C21: the relay loop enters reconnect_irc only from its read and with the
\* guard given up in the same step; it does not hold the guard while
\* reconnect_irc connects, waits or retries; and it leaves reconnect_irc only
\* from the installation of the new client, for the top of its loop, where
\* it has to take the guard again before it reads
C21_ReleaseBeforeReconnect ==
    /\ [](RcWorking("relay") => guard # "relay")
    /\ [](pc["relay"] = "recv" => guard = "relay")
    /\ [][(~InReconnect("relay") /\ InReconnect("relay")')
            => /\ pc["relay"] = "recv" /\ pc'["relay"] = "rc_connect"
               /\ guard = "relay" /\ guard' = "none"]_vars
    /\ [][(InReconnect("relay") /\ ~InReconnect("relay")')
            => /\ pc["relay"] = "rc_swap" /\ pc'["relay"] = "lock"
               /\ guard' = "none"]_vars

\* the relay loop waits between two attempts of its reconnect while another
\* task works on the connection
C21_Witness ==
    /\ pc["relay"] = "rc_sleep"
    /\ guard \in {"cons", "ping"}

\* C22: the relay loop and the keep-alive loop are never inside
\* reconnect_irc at the same time
C22_OneReconnect == ~(InReconnect("relay") /\ InReconnect("ping"))

(***************************************************************************)
(* SpecRc: the two loops that call reconnect_irc, with no bound on the     *)
(* failed attempts, scheduled fairly                                       *)
(***************************************************************************)
RelayRc == RelayLock \/ RelayRecv({PingLine}) \/ RelayHandle \/ RelayPong(FALSE)

ReconnectRc(t) ==
    \/ RcConnect(t, TRUE)
    \/ RcAuth(t, TRUE)
    \/ RcSleep(t, FALSE)
    \/ RcLock(t)
    \/ RcSwap(t)

NextRc ==
    \/ RelayRc
    \/ KeepAlive
    \/ \E t \in Reconnectors : ReconnectRc(t)
    \/ ConnDrop
    \/ ServerToggle

\* the steps of task t that wait for the guard, and its other steps
LockStep(t) ==
    IF t = "relay" THEN RelayLock \/ RcLock("relay")
    ELSE PingLock \/ RcLock("ping")

OwnStep(t) ==
    IF t = "relay"
    THEN RelayRecv({PingLine}) \/ RelayHandle \/ RelayPong(FALSE)
            \/ RcConnect(t, TRUE) \/ RcAuth(t, TRUE) \/ RcSleep(t, FALSE) \/ RcSwap(t)
    ELSE PingSleep \/ PingWrite(FALSE)
            \/ RcConnect(t, TRUE) \/ RcAuth(t, TRUE) \/ RcSleep(t, FALSE) \/ RcSwap(t)

\* the scheduler runs every task that can take a step, and the tokio mutex
\* hands the guard to its waiters in turn; the environment owes nothing
FairRc ==
    /\ Init /\ [][NextRc]_vars
    /\ \A t \in Reconnectors : WF_vars(OwnStep(t)) /\ SF_vars(LockStep(t))

SpecRc == Init /\ [][NextRc]_vars

\* C8: reconnect_irc returns only by installing a client whose handshake
\* succeeded, and, if the server from some point on accepts connections, it
\* does return
C8_NeverGivesUp ==
    /\ [][\A t \in Reconnectors :
            (InReconnect(t) /\ ~InReconnect(t)')
              => /\ pc[t] = "rc_swap"
                 /\ newc[t].stage = "joined"
                 /\ irc_client' = newc[t]]_vars
    /\ (<>[]serverUp) =>
          \A t \in Reconnectors : (InReconnect(t) ~> ~InReconnect(t))

\* a reconnect that failed at least four times installs its client
C8_Witness ==
    /\ pc["relay"] = "rc_swap"
    /\ delay_secs["relay"] = 60
    /\ newc["relay"].stage = "joined"

(***************************************************************************)
(* CustomIrcClient::connect_and_auth, lines 225-279, line by line          *)
(***************************************************************************)
CapAckLine == <<":srv", SP, "CAP", SP, "*", SP, "ACK", SP, ":", "sasl", CRLF>>
AuthPlusLine == <<"AUTHENTICATE", SP, "+", CRLF>>
Line903 == <<":srv", SP, "903", SP, "*", SP, ":ok", CRLF>>
Line904 == <<":srv", SP, "904", SP, "*", SP, ":failed", CRLF>>
Line905 == <<":srv", SP, "905", SP, "*", SP, ":too long", CRLF>>
Line904x == <<":srv", SP, "904", SP, "903", SP, ":failed", CRLF>>
Line376 == <<":srv", SP, "376", SP, "nick", SP, ":end", CRLF>>
Line422 == <<":srv", SP, "422", SP, "nick", SP, ":no motd", CRLF>>
NoticeLine == <<":srv", SP, "NOTICE", SP, "*", SP, ":hello", CRLF>>

HsLines == {CapAckLine, AuthPlusLine, Line903, Line904, Line905, Line904x,
            Line376, Line422, NoticeLine}

CAP_REQ == "CAP REQ :sasl"
AUTH_PLAIN == "AUTHENTICATE PLAIN"
AUTH_CREDS == "AUTHENTICATE <base64>"
CAP_END == "CAP END"
NICK == "NICK"
USER == "USER"
JOIN == "JOIN"

\* the command each sending position writes, and the position that follows
SendOf(p) ==
    CASE p = "s_capreq" -> CAP_REQ
      [] p = "s_authplain" -> AUTH_PLAIN
      [] p = "s_creds" -> AUTH_CREDS
      [] p = "s_capend" -> CAP_END
      [] p = "s_nick" -> NICK
      [] p = "s_user" -> USER
      [] p = "s_join" -> JOIN

\* a handshake that joins right after the registration
AfterSend_NoMotdWait(p) ==
    CASE p = "s_capreq" -> "w_ack"
      [] p = "s_authplain" -> "w_plus"
      [] p = "s_creds" -> "w_903"
      [] p = "s_capend" -> "s_nick"
      [] p = "s_nick" -> "s_user"
      [] p = "s_user" -> "s_join"
      [] p = "s_join" -> "done"

AfterSend(p) ==
    CASE p = "s_capreq" -> "w_ack"
      [] p = "s_authplain" -> "w_plus"
      [] p = "s_creds" -> "w_903"
      [] p = "s_capend" -> "s_nick"
      [] p = "s_nick" -> "s_user"
      [] p = "s_user" -> "w_motd"
      [] p = "s_join" -> "done"

SendPcs == {"s_capreq", "s_authplain", "s_creds", "s_capend", "s_nick",
            "s_user", "s_join"}
WaitPcs == {"w_ack", "w_plus", "w_903", "w_motd"}

\* lines 255-262 with only the first rejection code tested
AfterLine_Only904(p, line) ==
    CASE p = "w_ack" ->
            IF Contains(line, "CAP") /\ Contains(line, "ACK")
                  /\ Contains(line, "sasl")
            THEN "s_authplain" ELSE p
      [] p = "w_plus" ->
            IF Trim(line) = <<"AUTHENTICATE", SP, "+">> THEN "s_creds" ELSE p
      [] p = "w_903" ->
            IF Contains(line, "903") THEN "s_capend"
            ELSE IF Contains(line, "904") THEN "rejected"
            ELSE p
      [] p = "w_motd" ->
            IF Contains(line, "376") \/ Contains(line, "422")
            THEN "s_join" ELSE p

\* lines 270-275 with only the end-of-MOTD code tested
AfterLine_Only376(p, line) ==
    CASE p = "w_ack" ->
            IF Contains(line, "CAP") /\ Contains(line, "ACK")
                  /\ Contains(line, "sasl")
            THEN "s_authplain" ELSE p
      [] p = "w_plus" ->
            IF Trim(line) = <<"AUTHENTICATE", SP, "+">> THEN "s_creds" ELSE p
      [] p = "w_903" ->
            IF Contains(line, "903") THEN "s_capend"
            ELSE IF Contains(line, "904") \/ Contains(line, "905")
            THEN "rejected"
            ELSE p
      [] p = "w_motd" ->
            IF Contains(line, "376") THEN "s_join" ELSE p

\* the four read loops, lines 236-241, 244-249, 255-262, 270-275: the
\* position after the line read at waiting position p
AfterLine(p, line) ==
    CASE p = "w_ack" ->
            IF Contains(line, "CAP") /\ Contains(line, "ACK")
                  /\ Contains(line, "sasl")
            THEN "s_authplain" ELSE p
      [] p = "w_plus" ->
            IF Trim(line) = <<"AUTHENTICATE", SP, "+">> THEN "s_creds" ELSE p
      [] p = "w_903" ->
            IF Contains(line, "903") THEN "s_capend"
            ELSE IF Contains(line, "904") \/ Contains(line, "905")
            THEN "rejected"
            ELSE p
      [] p = "w_motd" ->
            IF Contains(line, "376") \/ Contains(line, "422")
            THEN "s_join" ELSE p

\* caller t is inside its call of connect_and_auth
Running(t) ==
    \/ t = "main" /\ pc[t] = "new"
    \/ t \in Reconnectors /\ pc[t] = "rc_connect"

\* connect_and_auth returns Ok(c): line 44 for Bridge::new (the client is
\* stored and the loops are spawned), line 197 for reconnect_irc
HsOk(t) ==
    IF t = "main"
    THEN /\ irc_client' = [alive |-> TRUE, stage |-> "joined", by |-> "new"]
         /\ newc' = [newc EXCEPT ![t] = NoConn]
         /\ pc' = Spawned
    ELSE /\ newc' = [newc EXCEPT ![t].stage = "joined"]
         /\ pc' = [pc EXCEPT ![t] = "rc_lock"]
         /\ UNCHANGED irc_client

\* Bridge::new trying the handshake again after an error
HsErr_Retry(t) ==
    /\ newc' = [newc EXCEPT ![t] = NoConn]
    /\ pc' = [pc EXCEPT ![t] = IF t = "main" THEN "new" ELSE "rc_sleep"]
    /\ UNCHANGED irc_client

\* connect_and_auth returns Err: line 43 (Bridge::new returns the error),
\* line 203 for reconnect_irc
HsErr(t) ==
    /\ newc' = [newc EXCEPT ![t] = NoConn]
    /\ pc' = [pc EXCEPT ![t] = IF t = "main" THEN "failed" ELSE "rc_sleep"]
    /\ UNCHANGED irc_client

\* line 232: CustomIrcClient::new, and the choice of line 234
HsNew(t) ==
    /\ Running(t)
    /\ hs.pc \in {"idle", "done", "failed"}
    /\ \/ /\ newc' = [newc EXCEPT ![t] = NewClient(t)]
          /\ hs' = [hs EXCEPT !.pc = IF hs.creds THEN "s_capreq" ELSE "s_nick",
                              !.in = <<>>, !.out = <<>>, !.result = "none"]
          /\ UNCHANGED <<pc, irc_client>>
       \/ /\ hs' = [hs EXCEPT !.pc = "failed", !.in = <<>>, !.out = <<>>,
                              !.result = "connect"]
          /\ HsErr(t)
    /\ UNCHANGED <<guard, delay_secs, serverUp, queue, seen_amz, seen_irc,
                   amzLock, batch, cur, room, fetched, sent, sentFrom, wrote, wire, posts>>

\* one send_raw(..)? of the handshake
HsSend(t) ==
    /\ Running(t)
    /\ hs.pc \in SendPcs
    /\ \/ /\ hs' = [hs EXCEPT !.out = Append(@, SendOf(hs.pc)),
                              !.pc = AfterSend(hs.pc),
                              !.result = IF hs.pc = "s_join" THEN "ok" ELSE @]
          /\ IF hs.pc = "s_join"
             THEN HsOk(t)
             ELSE UNCHANGED <<pc, irc_client, newc>>
       \/ /\ hs' = [hs EXCEPT !.pc = "failed", !.result = "io_write"]
          /\ HsErr(t)
    /\ UNCHANGED <<guard, delay_secs, serverUp, queue, seen_amz, seen_irc,
                   amzLock, batch, cur, room, fetched, sent, sentFrom, wrote, wire, posts>>

\* one receive_message()? of the handshake
HsRecv(t) ==
    /\ Running(t)
    /\ hs.pc \in WaitPcs
    /\ \/ /\ Len(hs.in) < MaxHsLines
          /\ \E line \in HsLines :
                LET next == AfterLine(hs.pc, line)
                    log == Append(hs.in, [at |-> hs.pc, line |-> line,
                                          n |-> Len(hs.out)])
                IN  IF next = "rejected"
                    THEN /\ hs' = [hs EXCEPT !.in = log, !.pc = "failed",
                                             !.result = "rejected"]
                         /\ HsErr(t)
                    ELSE /\ hs' = [hs EXCEPT !.in = log, !.pc = next]
                         /\ UNCHANGED <<pc, irc_client, newc>>
       \/ /\ hs' = [hs EXCEPT !.pc = "failed", !.result = "io_read"]
          /\ HsErr(t)
    /\ UNCHANGED <<guard, delay_secs, serverUp, queue, seen_amz, seen_irc,
                   amzLock, batch, cur, room, fetched, sent, sentFrom, wrote, wire, posts>>

(***************************************************************************)
(* SpecConn: Bridge::new's connect_and_auth, then the relay loop whose     *)
(* failed reads call reconnect_irc                                         *)
(***************************************************************************)
InitConn ==
    /\ pc = [t \in Procs |-> IF t = "main" THEN "new" ELSE "off"]
    /\ irc_client = NoConn
    /\ guard = "none"
    /\ newc = [t \in Callers |-> NoConn]
    /\ delay_secs = [t \in Reconnectors |-> 5]
    /\ serverUp = TRUE
    /\ queue = <<>>
    /\ seen_amz = {}
    /\ seen_irc = {}
    /\ amzLock = FALSE
    /\ batch = <<>>
    /\ cur = [t \in {"relay", "cons"} |-> <<>>]
    /\ room = {}
    /\ fetched = <<>>
    /\ sent = <<>>
    /\ sentFrom = <<>>
    /\ wrote = <<>>
    /\ wire = <<>>
    /\ posts = <<>>
    /\ \E c \in BOOLEAN : hs = [NoHs EXCEPT !.creds = c]

NextConn ==
    \/ \E t \in {"main", "relay"} : HsNew(t) \/ HsSend(t) \/ HsRecv(t)
    \/ RelayLock
    \/ RelayRecv({})
    \/ RcSleep("relay", TRUE)
    \/ RcLock("relay")
    \/ RcSwap("relay")

SpecConn == InitConn /\ [][NextConn]_vars

(***************************************************************************)
(* Properties of SpecConn                                                  *)
(***************************************************************************)
Ended == hs.pc \in {"done", "failed"}

LinesOf(in) == [i \in 1..Len(in) |-> in[i].line]

AllCommands == <<CAP_REQ, AUTH_PLAIN, AUTH_CREDS, CAP_END, NICK, USER, JOIN>>

\* C5: with credentials, when the server answers CAP ACK sasl, then
\* AUTHENTICATE +, then 903 (and ends the registration with 376 or 422) and
\* no write fails, connect_and_auth succeeds and JOIN is sent, after CAP END,
\* NICK and USER
C5_SaslSuccess ==
    (/\ hs.creds
     /\ Ended
     /\ hs.result # "io_write"
     /\ \E m \in {Line376, Line422} :
           LinesOf(hs.in) = <<CapAckLine, AuthPlusLine, Line903, m>>)
      => (hs.result = "ok" /\ hs.out = AllCommands)

\* a reconnect whose server had no MOTD succeeds after the scripted replies
C5_Witness ==
    /\ hs.creds
    /\ hs.result = "ok"
    /\ pc["relay"] = "rc_lock"
    /\ LinesOf(hs.in) = <<CapAckLine, AuthPlusLine, Line903, Line422>>

\* a line that answers the credentials with a rejection code and not with
\* the success code
Rejection(line) ==
    /\ ~Contains(line, "903")
    /\ Contains(line, "904") \/ Contains(line, "905")

C7_Backoff ==
    \A k \in 1..Len(hs.waits) : hs.waits[k] = Min(5 * (2 ^ (k - 1)), 60)

\* seven attempts in a row have failed: 5, 10, 20, 40, 60, 60, 60
C7_Witness == Len(hs.waits) = 7 /\ hs.waits[7] = 60 /\ hs.waits[4] = 40

\* the place of command c among the commands sent, 0 when it was not sent
Pos(c) == Find(hs.out, c)

\* a line of the given kind was read before command c was sent
ReadBefore(c, Kind(_)) ==
    \E i \in 1..Len(hs.in) : Kind(hs.in[i].line) /\ hs.in[i].n < Pos(c)

IsAck(line) ==
    Contains(line, "CAP") /\ Contains(line, "ACK") /\ Contains(line, "sasl")
IsPrompt(line) == Trim(line) = <<"AUTHENTICATE", SP, "+">>
IsSuccess(line) == Contains(line, "903")
IsMotdEnd(line) == Contains(line, "376") \/ Contains(line, "422")

\* C16: in every run of connect_and_auth, JOIN comes after NICK and USER
\* and after a 376 or 422 line was read; with credentials, AUTHENTICATE
\* PLAIN comes after the capability ACK, the credentials after the
\* AUTHENTICATE + prompt, CAP END after 903 and before NICK; without
\* credentials no CAP or AUTHENTICATE command is sent
C16_HandshakeOrder ==
    /\ Pos(JOIN) # 0
          => /\ Pos(NICK) \in 1..(Pos(JOIN) - 1)
             /\ Pos(USER) \in 1..(Pos(JOIN) - 1)
             /\ ReadBefore(JOIN, IsMotdEnd)
    /\ Pos(AUTH_PLAIN) # 0 => ReadBefore(AUTH_PLAIN, IsAck)
    /\ Pos(AUTH_CREDS) # 0 => ReadBefore(AUTH_CREDS, IsPrompt)
    /\ Pos(CAP_END) # 0 => ReadBefore(CAP_END, IsSuccess)
    /\ (hs.creds /\ Pos(NICK) # 0) => Pos(CAP_END) \in 1..(Pos(NICK) - 1)
    /\ ~hs.creds
          => \A c \in {CAP_REQ, AUTH_PLAIN, AUTH_CREDS, CAP_END} : Pos(c) = 0

\* a handshake without credentials has ignored a notice and joined after 376
C16_Witness ==
    /\ ~hs.creds
    /\ hs.result = "ok"
    /\ LinesOf(hs.in) = <<NoticeLine, Line376>>
    /\ hs.out = <<NICK, USER, JOIN>>

\* C11: an error of the initial connect or handshake ends Bridge::new at
\* once: no second attempt, no reconnect, no background loop started, no
\* Connection stored, and nothing happens afterwards
C11_InitialFailureFatal ==
    /\ [](pc["main"] = "failed"
            => /\ \A t \in Tasks : pc[t] = "off"
               /\ irc_client = NoConn
               /\ newc["main"] = NoConn
               /\ hs.waits = <<>>)
    /\ [][/\ (pc["main"] = "new" /\ hs'.pc = "failed") => pc'["main"] = "failed"
          /\ pc["main"] = "failed" => (pc' = pc /\ hs'.out = hs.out)]_vars

\* Bridge::new has failed on the write of USER, after NICK went out
C11_Witness ==
    /\ pc["main"] = "failed"
    /\ hs.result = "io_write"
    /\ hs.out = <<NICK>>

(***************************************************************************)
(* SpecMsg: the message path between the room service and IRC, on a        *)
(* connection that stays up                                                *)
(***************************************************************************)
PayloadsRich ==
    { <<"u", COLON_SP, "x">>,
      <<AMZ, "u", COLON_SP, "x">>,
      <<IRC, "n", COLON_SP, "x">>,
      <<AMZ, IRC, "q">>,
      <<PAD, "p", PAD_END, "x", STRONG, "b", STRONG_END>>,
      <<DUMMY, "z">> }

PadLine == <<":", "eve", "!", "u@h", SP, "PRIVMSG", SP, "#chan", SP, ":", PAD_END, "w", PAD, CRLF>>
LinesRich == {PingLine, AboutLine, PadLine}

\* every payload the room service may return: those of the other users and
\* those the bridge posted itself
RoomPayloads == PayloadsRich \cup UNION {Echo(f) : f \in room}

NextMsg ==
    \/ PollFetch(RoomPayloads, MaxFetchedMsg - Len(fetched))
    \/ PollItem(TRUE)
    \/ PollSend
    \/ PollDone
    \/ PollLog
    \/ PollSleep
    \/ RelayLock
    \/ RelayRecv(LinesRich)
    \/ RelayHandle
    \/ RelayPong(FALSE)
    \/ RelayReply(FALSE)
    \/ RelayForward(FALSE, TRUE)
    \/ Consumer

SpecMsg == Init /\ [][NextMsg]_vars

\* the fetched messages the polling loop has finished with
Processed == Len(fetched) - (IF pc["poll"] = "send" THEN 1 ELSE 0)

\* the entries of a fetch history that are no duplicate and carry the
\* protocol-origin marker
MarkedFirst(h) ==
    Cardinality({i \in 1..Len(h) :
                    /\ StartsWith(Content(h[i]), <<IRC>>)
                    /\ \A j \in 1..(i - 1) : h[j] # h[i]})

\* C2 as stated: N fetched messages with K duplicates give N-K Dispatch Items
C2_DedupAsStated ==
    pc["poll"] # "send" => Len(sent) = Len(fetched) - Duplicates(fetched)

\* C2: N fetched messages, K of them duplicates of an earlier one and M of
\* the others carrying the protocol-origin marker, give N-K-M Dispatch Items
C2_Dedup ==
    pc["poll"] # "send"
      => Len(sent) = Len(fetched) - Duplicates(fetched) - MarkedFirst(fetched)

\* three messages fetched: a duplicate, a marked one and one that is sent
C2_Witness ==
    /\ pc["poll"] = "sleep"
    /\ Len(fetched) = 3
    /\ Duplicates(fetched) = 1
    /\ MarkedFirst(fetched) = 1
    /\ Len(sent) = 1

\* what the polling loop gets back for a message the relay loop posted
Echoes == {Cleaned(e) : e \in UNION {Echo(f) : f \in room}}

\* C3: a message the relay loop posted with the protocol-origin marker never
\* becomes a Dispatch Item and is never written to the protocol side
C3_LoopPrevention ==
    /\ \A i \in 1..Len(sentFrom) : sentFrom[i] \notin Echoes
    /\ \A i \in 1..Len(wrote) : \E j \in 1..Len(sent) : wrote[i] = sent[j]

\* the polling loop has taken in the echo of a forwarded line, padded by
\* the encryption, and other messages have gone through
C3_Witness ==
    /\ \E f \in room : Cleaned(<<PAD, "p", PAD_END>> \o f) \in seen_amz
    /\ pc["poll"] = "sleep"
    /\ wrote # <<>>

\* the number of Dispatch Items the consumer has taken from the queue
Taken == Len(sent) - Len(queue)

\* C13: the queue holds the submitted items not yet taken, in submission
\* order; the item the consumer holds is the last one taken; the items
\* written are the items taken before it, in submission order, each once
C13_FifoExactlyOnce ==
    /\ Taken >= 0
    /\ queue = SubSeq(sent, Taken + 1, Len(sent))
    /\ IF pc["cons"] \in {"lock", "write"}
       THEN /\ Taken >= 1
            /\ cur["cons"] = sent[Taken]
            /\ wrote = SubSeq(sent, 1, Taken - 1)
       ELSE wrote = SubSeq(sent, 1, Taken)

\* one item is written and two different items wait in the queue
C13_Witness ==
    /\ Len(wrote) = 1
    /\ Len(queue) = 2
    /\ queue[1] # queue[2]

(***************************************************************************)
(* SpecLine: room-service messages of up to MaxText characters, with CR    *)
(* and LF inside, on their way through the polling loop and the consumer   *)
(***************************************************************************)
\* n characters with a CR at every 5th and an LF at every 7th place
Text(n) ==
    [i \in 1..n |-> IF i % 5 = 0 THEN CR ELSE IF i % 7 = 0 THEN LF ELSE "a"]

PayloadsLong ==
    { Text(MaxText),
      Text(400),
      <<"u", COLON_SP>> \o Text(398),
      <<"a", CRLF, "b", LF, "c">> }

NextLine ==
    \/ PollFetch(PayloadsLong, MaxBatch)
    \/ PollItem(FALSE)
    \/ PollSend
    \/ PollDone
    \/ PollLog
    \/ PollSleep
    \/ ConsRecv
    \/ ConsLock
    \/ ConsWrite(TRUE)

SpecLine == Init /\ [][NextLine]_vars

\* the body of a PRIVMSG line to tgt: what stands between "PRIVMSG tgt :"
\* and the terminator
BodyOf(line, tgt) == SubSeq(line, Len(tgt) + 5, Len(line) - 1)

\* C12: the line written for a Dispatch Item (tgt, text) is
\* "PRIVMSG tgt :body CRLF", where body is the first 400 characters of text
\* with every CR and LF turned into a space; the terminator is the only
\* CR or LF of the line
C12_LineSanitation ==
    /\ Len(wire) = Len(wrote)
    /\ \A i \in 1..Len(wire) :
          LET text == Chars(wrote[i][2])
              line == wire[i].data
              tgt == wrote[i][1]
              body == BodyOf(line, tgt)
          IN  /\ SubSeq(line, 1, Len(tgt) + 4)
                    = <<"PRIVMSG", SP>> \o tgt \o <<SP, ":">>
              /\ line[Len(line)] = CRLF
              /\ Len(body) = Min(Len(text), 400)
              /\ \A j \in 1..Len(body) :
                    body[j] = IF text[j] \in {CR, LF} THEN SP ELSE text[j]
              /\ Cardinality({j \in 1..Len(line) :
                                 line[j] \in {CR, LF, CRLF}}) = 1

\* a text of more than 400 characters with CR and LF among the first 400
\* has been written
C12_Witness ==
    \E i \in 1..Len(wire) :
       LET text == Chars(wrote[i][2]) IN
       /\ Len(text) > 400
       /\ \E j, k \in 1..400 : text[j] = CR /\ text[k] = LF
       /\ Len(BodyOf(wire[i].data, wrote[i][1])) = 400

(***************************************************************************)
(* SpecRelay: the relay loop on its own, with every socket write and every *)
(* submission to the room service recorded                                 *)
(***************************************************************************)
\* a PING whose token contains the text PING
PingPingLine == <<"PING", SP, ":", "PING", "srv", CRLF>>
AboutSpLine == <<":", "bob", "!", "u@h", SP, "PRIVMSG", SP, "#chan", SP, ":", SP, ABOUT, CRLF>>
AmzLine == <<":", "bob", "!", "u@h", SP, "PRIVMSG", SP, "#chan", SP, ":", AMZ, "y", CRLF>>
IrcLine == <<":", "bob", "!", "u@h", SP, "PRIVMSG", SP, "#chan", SP, ":", IRC, "z", CRLF>>
JoinLine == <<":", "bob", "!", "u@h", SP, "JOIN", SP, "#chan", CRLF>>

LinesRelay == {PingLine, PingPingLine, AboutLine, AboutSpLine, HiLine,
               AmzLine, IrcLine, JoinLine}

\* the lines the relay loop answers with a write on the socket
Answered(raw) ==
    \/ StartsWith(raw, <<"PING">>)
    \/ /\ parse_irc_message(raw) # None
       /\ Trim(parse_irc_message(raw)[2]) = <<ABOUT>>

\* the server sends lines that need an answer while the record has room
LinesNow ==
    IF Len(wire) < MaxWire THEN LinesRelay
    ELSE {l \in LinesRelay : ~Answered(l)}

FailedPosts == Cardinality({i \in 1..Len(posts) : posts[i].outcome # "ok"})

NextRelay ==
    \/ RelayLock
    \/ RelayRecv(LinesNow)
    \/ RelayHandle
    \/ RelayPong(TRUE)
    \/ RelayReply(TRUE)
    \/ RelayForward(TRUE, FailedPosts < MaxFailedPosts)
    \/ RcConnect("relay", FALSE)
    \/ RcAuth("relay", FALSE)
    \/ RcLock("relay")
    \/ RcSwap("relay")
    \/ ConnDrop

SpecRelay == Init /\ [][NextRelay]_vars

(***************************************************************************)
(* Properties of SpecRelay                                                 *)
(***************************************************************************)
\* a protocol-level PING: the command PING and its parameters
IsPing(raw) == Len(raw) >= 2 /\ raw[1] = "PING" /\ raw[2] = SP

\* the PONG that answers a PING line: the same parameters after PONG
PongFor(raw) == <<"PONG">> \o Tail(raw)

\* C18: a PING line read by the relay loop goes to the PONG write and
\* nowhere else, with the guard held and nothing recorded or forwarded; the
\* write is the PONG with the PING's token, issued before the next read
C18_PingAnswered ==
    [][/\ (pc["relay"] = "line" /\ IsPing(cur["relay"])
               /\ pc'["relay"] # "line")
            => /\ pc'["relay"] = "pong"
               /\ guard' = "relay"
               /\ UNCHANGED <<cur, seen_irc, posts, room>>
       /\ (pc["relay"] = "pong" /\ pc'["relay"] # "pong")
            => /\ guard = "relay"
               /\ wire' = Append(wire, [by |-> "relay",
                                        data |-> PongFor(cur["relay"]),
                                        ok |-> irc_client.alive])
               /\ pc'["relay"] = "lock"
               /\ UNCHANGED <<seen_irc, posts, room>>]_vars

\* the relay loop takes a step from the line it has read
Handles == pc["relay"] = "line" /\ pc'["relay"] # "line"

\* the text the relay loop submits for (nick, msg) under marker m
Submission(m, nick, msg) == <<m, STRONG>> \o nick \o <<STRONG_END, COLON_SP>> \o msg

\* C19: a direct message that is the about command, with a new
\* fingerprint, is answered with the static reply to its target, written
\* under the guard before the next read, and nothing is submitted; no
\* submission ever carries the about command
C19_AboutCommand ==
    /\ [][LET raw == cur["relay"]
              parsed == parse_irc_message(raw)
          IN  /\ (/\ Handles
                  /\ ~IsPing(raw)
                  /\ parsed # None
                  /\ parsed[2] = <<ABOUT>>
                  /\ Key(parsed[3], parsed[2]) \notin seen_irc)
                   => /\ pc'["relay"] = "reply"
                      /\ guard' = "relay"
                      /\ UNCHANGED <<cur, posts, room>>
              /\ (pc["relay"] = "reply" /\ pc'["relay"] # "reply")
                   => /\ guard = "relay"
                      /\ wire' = Append(wire,
                            [by |-> "relay",
                             data |-> <<"PRIVMSG", SP>> \o parsed[1] \o <<SP, ":">>
                                         \o Chars(parsed[3])
                                         \o <<":", SP, ABOUT_TEXT, CRLF>>,
                             ok |-> irc_client.alive])
                      /\ pc'["relay"] = "lock"
                      /\ UNCHANGED <<posts, room>>]_vars
    /\ [](\A i \in 1..Len(posts) : ~Contains(posts[i].text, ABOUT))

\* the about reply is on the socket and other messages were submitted
C19_Witness ==
    /\ \E i \in 1..Len(wire) : Contains(wire[i].data, ABOUT_TEXT) /\ wire[i].ok
    /\ Len(posts) = 2
    /\ Key(<<"bob">>, <<ABOUT>>) \in seen_irc

\* the forwarding rule for one step of the relay loop: the marker tested on
\* the body, the marker put in front of the submission, and whether the
\* about command is recognized only when the body is exactly the command
ForwardStep(tested, prefixed, exact) ==
    LET raw == cur["relay"]
        parsed == parse_irc_message(raw)
        eligible ==
            /\ ~IsPing(raw)
            /\ parsed # None
            /\ Key(parsed[3], parsed[2]) \notin seen_irc
            /\ (IF exact THEN parsed[2] ELSE Trim(parsed[2])) # <<ABOUT>>
            /\ ~StartsWith(parsed[2], <<tested>>)
    IN  /\ Handles => (pc'["relay"] = "forward" <=> eligible)
        /\ (pc["relay"] = "forward" /\ pc'["relay"] # "forward")
              => \E o \in {"ok"} \cup Failures :
                    posts' = Append(posts,
                       [key |-> Key(parsed[3], parsed[2]),
                        text |-> Submission(prefixed, parsed[3], parsed[2]),
                        outcome |-> o])
        /\ posts' # posts => pc["relay"] = "forward"

\* no fingerprint is submitted twice
SubmittedOnce ==
    \A i, j \in 1..Len(posts) : i # j => posts[i].key # posts[j].key

\* C20 as stated: a direct message is submitted iff it parses, its
\* fingerprint is new, it is not (exactly) the about command and its body
\* does not begin with the protocol-origin marker; it is submitted once, as
\* that marker + <strong>sender</strong>: message
C20_AsStated ==
    /\ [][ForwardStep(IRC, IRC, TRUE)]_vars
    /\ []SubmittedOnce

\* C20: a direct message is submitted iff it parses, its fingerprint is
\* new, its trimmed body is not the about command and its body does not
\* begin with the room-origin marker [AMZ]; it is submitted once, as
\* [IRC]<strong>sender</strong>: message
C20_ForwardRule ==
    /\ [][ForwardStep(AMZ, IRC, FALSE)]_vars
    /\ []SubmittedOnce

\* a body that begins with [IRC] has been submitted, one that begins with
\* [AMZ] has been recorded and dropped
C20_Witness ==
    /\ \E i \in 1..Len(posts) :
          posts[i].text = Submission(IRC, <<"bob">>, <<IRC, "z">>)
    /\ Key(<<"bob">>, <<AMZ, "y">>) \in seen_irc
    /\ pc["relay"] = "lock"

\* the failures of the send itself: a non-success status, a transport
\* error, the timeout
SendFailures == {"status", "error", "timeout"}

\* the relay loop holds the message with fingerprint k for a submission
Pending(k) ==
    /\ pc["relay"] = "forward"
    /\ Key(parse_irc_message(cur["relay"])[3],
           parse_irc_message(cur["relay"])[2]) = k

\* C15: a message whose send failed is not given up: it has been delivered
\* by a later submission, or the relay loop holds it for a submission, or
\* the loop would still submit it when it comes up again (its fingerprint
\* does not block it)
C15_FailedSendRetried ==
    \A i \in 1..Len(posts) :
       posts[i].outcome \in SendFailures
         => \/ posts[i].text \in room
            \/ Pending(posts[i].key)
            \/ posts[i].key \notin seen_irc

(***************************************************************************)
(* FairPoll: the polling loop with the two tasks it depends on, the        *)
(* consumer that drains the queue and the keep-alive loop that competes    *)
(* with the consumer for the guard, scheduled fairly                       *)
(***************************************************************************)
NextPoll ==
    \/ Polling
    \/ Consumer
    \/ KeepAlive

\* the runtime runs every task that can take a step, and the tokio mutex
\* hands the guard to its waiters in turn
FairPoll ==
    /\ Init /\ [][NextPoll]_vars
    /\ WF_vars(Polling)
    /\ WF_vars(ConsRecv \/ ConsWrite(FALSE)) /\ SF_vars(ConsLock)
    /\ WF_vars(PingSleep \/ PingWrite(FALSE)) /\ SF_vars(PingLock)

\* C17: the polling loop never leaves its loop; a fetch that fails goes to
\* the log and the sleep without touching the dedup set or the queue; the
\* sleep is followed by the next fetch, and fetches never cease
C17_PollingGoesOn ==
    /\ [](pc["poll"] \in {"fetch", "items", "send", "log", "sleep"})
    /\ [][(\/ pc["poll"] = "fetch" /\ pc'["poll"] = "log"
           \/ pc["poll"] = "log" /\ pc'["poll"] # "log")
            => /\ pc'["poll"] \in {"log", "sleep"}
               /\ UNCHANGED <<seen_amz, queue, batch>>]_vars
    /\ (pc["poll"] = "log") ~> (pc["poll"] = "sleep")
    /\ (pc["poll"] = "sleep") ~> (pc["poll"] = "fetch")
    /\ []<>(pc["poll"] = "fetch")

\* a fetch has failed while a message waits in the queue and others are
\* recorded
C17_Witness ==
    /\ pc["poll"] = "log"
    /\ queue # <<>>
    /\ seen_amz # {}

(***************************************************************************)
(* SpecAll: the four loops and reconnect_irc over enough messages to fill  *)
(* the queue while the consumer holds one                                  *)
(***************************************************************************)
\* the messages of the room in the order they were posted: enough of them
\* to have one with the consumer, the queue full and one more to submit
RoomLog == [i \in 1..(QueueCap + 2) |-> <<"u", COLON_SP, ToString(i)>>]

\* what a fetch can return: the messages fetched before and the oldest
\* message not fetched yet
PayloadsNow ==
    {RoomLog[i] : i \in {j \in 1..Len(RoomLog) :
                            \A k \in 1..(j - 1) : RoomLog[k] \in seen_amz}}

PollingAll ==
    \/ PollFetch(PayloadsNow, MaxBatch)
    \/ PollItem(FALSE)
    \/ PollSend
    \/ PollDone
    \/ PollLog
    \/ PollSleep

RelayAll ==
    \/ RelayRecv({HiLine})
    \/ RelayHandle
    \/ RelayForward(FALSE, TRUE)

\* reconnect_irc of task t against a server that accepts connections
ReconnectAll(t) ==
    \/ RcConnect(t, FALSE)
    \/ RcAuth(t, FALSE)
    \/ RcSwap(t)

NextAll ==
    \/ PollingAll
    \/ RelayLock
    \/ RelayAll
    \/ Consumer
    \/ KeepAlive
    \/ \E t \in Reconnectors : RcLock(t) \/ ReconnectAll(t)
    \/ ConnDrop

SpecAll == Init /\ [][NextAll]_vars

\* the steps of task t
Runs(t) ==
    CASE t = "poll"  -> PollingAll
      [] t = "relay" -> RelayLock \/ RelayAll \/ RcLock(t) \/ ReconnectAll(t)
      [] t = "cons"  -> Consumer
      [] t = "ping"  -> KeepAlive \/ RcLock(t) \/ ReconnectAll(t)

(***************************************************************************)
(* Properties of SpecAll                                                   *)
(***************************************************************************)
\* the tasks that t cannot go on without: the consumer when the polling
\* loop awaits a free slot of the queue (line 75), the holder of the guard
\* when t awaits the guard (lines 101, 155, 172, 198). The seen_amz mutex
\* is locked by the polling loop alone and the seen_irc mutex by the relay
\* loop alone, so no task ever awaits them
WaitsFor(t) ==
    IF t = "poll"
    THEN IF pc[t] = "send" /\ Len(queue) = QueueCap THEN {"cons"} ELSE {}
    ELSE IF pc[t] \in {"lock", "rc_lock"} /\ guard # "none" THEN {guard} ELSE {}

Waited(S) == UNION {WaitsFor(t) : t \in S}

\* t is on a cycle of waiting tasks
InCycle(t) ==
    t \in Waited({t}) \cup Waited(Waited({t}))
            \cup Waited(Waited(Waited({t})))
            \cup Waited(Waited(Waited(Waited({t}))))

\* a task may be waiting for u: u holds the guard, or u is the consumer of
\* a full queue
Awaited(u) == guard = u \/ (u = "cons" /\ Len(queue) = QueueCap)

\* the steps u has left before it gives up what it is awaited for: the
\* rest of the loop body for the holder of the guard, the way back to
\* rx.recv() for the consumer
Rank(u) ==
    CASE u = "relay" -> CASE pc[u] = "recv" -> 3
                          [] pc[u] = "line" -> 2
                          [] OTHER -> 1
      [] u = "cons"  -> CASE pc[u] = "lock" -> 3
                          [] pc[u] = "write" -> 2
                          [] OTHER -> 1
      [] OTHER -> 1

\* the rest of the relay loop's body after its read, lines 103-135: it
\* awaits the seen_irc mutex, which no other task locks, and the
\* submission, which the timeout of line 127 ends
InBody(u) == u = "relay" /\ pc[u] \in {"line", "pong", "reply", "forward"}

\* u can take a step of its own
CanRun(u) == IF InBody(u) THEN TRUE ELSE ENABLED Runs(u)

\* C23: no task is on a cycle of tasks waiting for each other; every chain
\* of waiting tasks ends in a task that can take a step of its own; and
\* every step of an awaited task either gives up what it is awaited for or
\* brings it closer to that. In particular the polling loop that awaits a
\* free slot while it holds the seen_amz mutex waits for the consumer only,
\* and the relay loop that holds the guard over the seen_irc mutex and the
\* submission waits for nobody
C23_NoDeadlock ==
    /\ [](\A t \in Tasks : ~InCycle(t))
    /\ [](\A t \in Tasks : \A u \in WaitsFor(t) :
              WaitsFor(u) # {} \/ CanRun(u))
    /\ [][\A u \in Tasks :
            (Awaited(u) /\ pc'[u] # pc[u])
                => ~Awaited(u)' \/ Rank(u)' < Rank(u)]_vars
    /\ []((pc["poll"] = "send" /\ Len(queue) = QueueCap)
              => amzLock /\ WaitsFor("poll") = {"cons"})
    /\ []((guard = "relay" /\ pc["relay"] \in {"line", "forward"})
              => WaitsFor("relay") = {})

\* the polling loop awaits a free slot holding the seen_amz mutex, the
\* consumer awaits the guard, and the relay loop holds the guard during its
\* submission to the room service
C23_Witness ==
    /\ pc["poll"] = "send" /\ amzLock /\ Len(queue) = QueueCap
    /\ pc["cons"] = "lock"
    /\ pc["relay"] = "forward" /\ guard = "relay"

====
